---- MODULE Spec2Model ----
(***************************************************************************)
(* The notebook "Processing GPS coordinates": the two helper functions     *)
(* notTraceMetadata and parseLogLine, and the cells that run them over a   *)
(* GPS log file (filter, map, heatmap data, origin of a trajectory).       *)
(*                                                                         *)
(* A Python str is a sequence of one-character strings.  The characters    *)
(* the model's inputs are written in are the decimal digits and            *)
(*     ","  "."  "-"  ":"  " "  "x"                                        *)
(* where " " stands for the whitespace str.strip() removes and "x" for a   *)
(* character that is part of no number and no date.                        *)
(***************************************************************************)
EXTENDS Integers, Sequences, FiniteSets, TLC

(***************************************************************************)
(* Python built-ins, as the two functions use them.                        *)
(***************************************************************************)

\* The outcome of a call: the value it returns, or the exception it raises.
Return(v) == [ret |-> v]

Raise(e) == [exc |-> e]

Raised(r) == "exc" \in DOMAIN r

Digits == {"0", "1", "2", "3", "4", "5", "6", "7", "8", "9"}

Whitespace == {" "}

DigitVal(c) ==
    CASE c = "0" -> 0 [] c = "1" -> 1 [] c = "2" -> 2 [] c = "3" -> 3
      [] c = "4" -> 4 [] c = "5" -> 5 [] c = "6" -> 6 [] c = "7" -> 7
      [] c = "8" -> 8 [] c = "9" -> 9

\* int() of a str of decimal digits
RECURSIVE IntOf(_)
IntOf(s) ==
    IF s = <<>> THEN 0
    ELSE 10 * IntOf(SubSeq(s, 1, Len(s) - 1)) + DigitVal(s[Len(s)])

AllDigits(s) == \A i \in DOMAIN s : s[i] \in Digits

\* str.lstrip() / str.rstrip() / str.strip() with no argument
RECURSIVE lstrip(_)
lstrip(s) ==
    IF s # <<>> /\ s[1] \in Whitespace THEN lstrip(Tail(s)) ELSE s

RECURSIVE rstrip(_)
rstrip(s) ==
    IF s # <<>> /\ s[Len(s)] \in Whitespace
    THEN rstrip(SubSeq(s, 1, Len(s) - 1))
    ELSE s

\* strip() that takes the commas at the ends of the line for padding too.
strip_Commas(s) ==
    LET kept == {i \in DOMAIN s : s[i] \notin Whitespace \cup {","}}
    IN  IF kept = {} THEN <<>>
        ELSE SubSeq(s, CHOOSE i \in kept : \A j \in kept : i <= j,
                       CHOOSE i \in kept : \A j \in kept : i >= j)

strip(s) == rstrip(lstrip(s))

\* str.split(sep) for a one-character sep: the fields between the
\* separators, empty fields included, so at least one field.
RECURSIVE split(_, _)
split(s, sep) ==
    IF \E i \in DOMAIN s : s[i] = sep
    THEN LET i == CHOOSE j \in DOMAIN s :
                      s[j] = sep /\ \A k \in 1..(j - 1) : s[k] # sep
         IN  <<SubSeq(s, 1, i - 1)>> \o split(SubSeq(s, i + 1, Len(s)), sep)
    ELSE <<s>>

(***************************************************************************)
(* float(str).  A float is modelled in fixed point, as the integer number  *)
(* of 10^-FracDigits units, which is exact for every literal with at most  *)
(* FracDigits digits after the point.  Over the model's characters the     *)
(* literals float() accepts are, after surrounding whitespace is removed,  *)
(*     ["-"] digits ["." [digits]]   and   ["-"] "." digits                *)
(* and every other str raises ValueError.                                  *)
(***************************************************************************)
FracDigits == 2

RECURSIVE Pow10(_)
Pow10(n) == IF n = 0 THEN 1 ELSE 10 * Pow10(n - 1)

RECURSIVE PadRight(_, _)
PadRight(s, n) ==
    IF Len(s) >= n THEN SubSeq(s, 1, n) ELSE PadRight(Append(s, "0"), n)

FloatLiteral(b) ==
    /\ \A i \in DOMAIN b : b[i] \in Digits \cup {"."}
    /\ \E i \in DOMAIN b : b[i] \in Digits
    /\ Cardinality({i \in DOMAIN b : b[i] = "."}) <= 1

FloatMagnitude(b) ==
    LET parts == split(b, ".")
        frac  == IF Len(parts) = 2 THEN parts[2] ELSE <<>>
    IN  IntOf(parts[1]) * Pow10(FracDigits) + IntOf(PadRight(frac, FracDigits))

float(x) ==
    LET s    == strip(x)
        neg  == s # <<>> /\ s[1] = "-"
        body == IF neg THEN Tail(s) ELSE s
    IN  IF ~FloatLiteral(body) THEN Raise("ValueError")
        ELSE Return(IF neg THEN 0 - FloatMagnitude(body)
                           ELSE FloatMagnitude(body))

(***************************************************************************)
(* datetime.strptime(date, "%Y-%m-%d %H:%M:%S").timestamp()                *)
(*                                                                         *)
(* strptime matches the str against the regular expression of the format:  *)
(*   %Y  \d\d\d\d                                                          *)
(*   %m  1[0-2]|0[1-9]|[1-9]                                               *)
(*   %d  3[01]|[12]\d|0[1-9]|[1-9]| [1-9]                                  *)
(*   %H  2[0-3]|[01]\d|\d                                                  *)
(*   %M  [0-5]\d|\d                                                        *)
(*   %S  6[01]|[0-5]\d|\d                                                  *)
(*   " " \s+                                                               *)
(* anchored at the start; text left over after the match, a date that is   *)
(* not a calendar date and a second above 59 all raise ValueError.         *)
(***************************************************************************)
At(s, i) == IF i \in DOMAIN s THEN s[i] ELSE "EOS"

Two_m(a, b) == \/ a = "1" /\ b \in {"0", "1", "2"}
               \/ a = "0" /\ b \in Digits \ {"0"}
One_m(a)    == a \in Digits \ {"0"}

Two_d(a, b) == \/ a = "3" /\ b \in {"0", "1"}
               \/ a \in {"1", "2"} /\ b \in Digits
               \/ a = "0" /\ b \in Digits \ {"0"}
               \/ a = " " /\ b \in Digits \ {"0"}
One_d(a)    == a \in Digits \ {"0"}

Two_H(a, b) == \/ a = "2" /\ b \in {"0", "1", "2", "3"}
               \/ a \in {"0", "1"} /\ b \in Digits
One_H(a)    == a \in Digits

Two_M(a, b) == a \in {"0", "1", "2", "3", "4", "5"} /\ b \in Digits
One_M(a)    == a \in Digits

Two_S(a, b) == \/ a = "6" /\ b \in {"0", "1"}
               \/ a \in {"0", "1", "2", "3", "4", "5"} /\ b \in Digits
One_S(a)    == a \in Digits

Two(d, a, b) ==
    CASE d = "month"  -> Two_m(a, b)
      [] d = "day"    -> Two_d(a, b)
      [] d = "hour"   -> Two_H(a, b)
      [] d = "minute" -> Two_M(a, b)
      [] d = "second" -> Two_S(a, b)

One(d, a) ==
    CASE d = "month"  -> One_m(a)
      [] d = "day"    -> One_d(a)
      [] d = "hour"   -> One_H(a)
      [] d = "minute" -> One_M(a)
      [] d = "second" -> One_S(a)

\* int() of the characters a directive matched (%d may match " 5")
NumAt(s, i, w) == IntOf(lstrip(SubSeq(s, i, i + w - 1)))

\* The match so far: the position of the next character, whether the
\* str has matched up to it, and the fields read.
NoMatch == [ok |-> FALSE, pos |-> 0, val |-> [year |-> 0]]

MatchStart == [ok |-> TRUE, pos |-> 1, val |-> [year |-> 0]]

\* %Y: four digits
Match_Y(m, s) ==
    IF /\ m.ok
       /\ \A i \in m.pos..(m.pos + 3) : At(s, i) \in Digits
    THEN [ok |-> TRUE, pos |-> m.pos + 4,
          val |-> [year |-> NumAt(s, m.pos, 4)]]
    ELSE NoMatch

\* a one-or-two character directive d; its alternatives are tried in the
\* order of the regular expression, the two-character ones first
Match_Field(m, s, d) ==
    LET w == IF Two(d, At(s, m.pos), At(s, m.pos + 1)) THEN 2
             ELSE IF One(d, At(s, m.pos)) THEN 1
             ELSE 0
    IN  IF m.ok /\ w > 0
        THEN [ok |-> TRUE, pos |-> m.pos + w,
              val |-> (d :> NumAt(s, m.pos, w)) @@ m.val]
        ELSE NoMatch

\* a literal character of the format
Match_Char(m, s, c) ==
    IF m.ok /\ At(s, m.pos) = c
    THEN [m EXCEPT !.pos = @ + 1]
    ELSE NoMatch

\* the position after the whitespace at position i
RECURSIVE SkipSpace(_, _)
SkipSpace(s, i) ==
    IF At(s, i) \in Whitespace THEN SkipSpace(s, i + 1) ELSE i

\* \s+
Match_Space(m, s) ==
    IF m.ok /\ At(s, m.pos) \in Whitespace
    THEN [m EXCEPT !.pos = SkipSpace(s, m.pos)]
    ELSE NoMatch

\* the whole str matched
Match_End(m, s) ==
    IF m.ok /\ m.pos = Len(s) + 1 THEN m ELSE NoMatch

Match_Date(s) ==
    Match_Field(Match_Char(
        Match_Field(Match_Char(
            Match_Y(MatchStart, s), s, "-"), s, "month"), s, "-"), s, "day")

Match_Time(m, s) ==
    Match_Field(Match_Char(
        Match_Field(Match_Char(
            Match_Field(m, s, "hour"), s, ":"), s, "minute"), s, ":"),
        s, "second")

IsLeap(y) == (y % 4 = 0 /\ y % 100 # 0) \/ y % 400 = 0

DaysInMonth(y, m) ==
    IF m = 2 THEN (IF IsLeap(y) THEN 29 ELSE 28)
    ELSE IF m \in {4, 6, 9, 11} THEN 30
    ELSE 31

\* Days from 1970-01-01 to the calendar date y-m-d.
DaysFromEpoch(y, m, d) ==
    LET yy  == IF m <= 2 THEN y - 1 ELSE y
        era == yy \div 400
        yoe == yy - era * 400
        mp  == IF m > 2 THEN m - 3 ELSE m + 9
        doy == (153 * mp + 2) \div 5 + d - 1
        doe == yoe * 365 + yoe \div 4 - yoe \div 100 + doy
    IN  era * 146097 + doe - 719468

\* The datetime the match stands for, or ValueError.
ToDatetime(m) ==
    IF ~m.ok THEN Raise("ValueError")
    ELSE IF \/ m.val.year < 1
            \/ m.val.day > DaysInMonth(m.val.year, m.val.month)
            \/ m.val.second > 59
         THEN Raise("ValueError")
    ELSE Return(m.val)

strptime(s) ==
    ToDatetime(Match_End(Match_Time(Match_Space(Match_Date(s), s), s), s))

\* datetime.timestamp() of a naive datetime: the seconds since the epoch of
\* that wall-clock time in the local time zone, utcoffset seconds east of UTC.
timestamp(dt, utcoffset) ==
    DaysFromEpoch(dt.year, dt.month, dt.day) * 86400
        + dt.hour * 3600 + dt.minute * 60 + dt.second - utcoffset

(***************************************************************************)
(* The state of the notebook.                                              *)
(*                                                                         *)
(* An RDD is lazy: the model keeps, for each of its elements in order, the *)
(* outcome of computing it (Return(value), or Raise(exception) when a      *)
(* function mapped over it fails on that element).  An action (take,       *)
(* collect, min) raises the first exception among the elements it needs.   *)
(***************************************************************************)
VARIABLES
    file,              \* the lines of data/010/Trajectory/20080618003409.plt
    utcoffset,         \* the kernel's local time zone, seconds east of UTC
    pc,                \* the next statement of the notebook's run
    raised,            \* the exception that stopped the run, "" while none
    rdd1, linesRDD, locationsRDD, coordinatesRDD, timestampsRDD,
    min_ts, originRDD, heatmap_layer, marker_locations,
    fn, arg, result    \* a direct call of one of the two functions

names == <<rdd1, linesRDD, locationsRDD, coordinatesRDD, timestampsRDD,
           min_ts, originRDD, heatmap_layer, marker_locations>>

call == <<fn, arg, result>>

vars == <<file, utcoffset, pc, raised, names, call>>

\* The value of a name the run has not assigned yet.
Unbound == <<>>

(***************************************************************************)
(* The two functions of the notebook.                                      *)
(***************************************************************************)
\* notTraceMetadata with the comparison slipped to "at least seven".
notTraceMetadata_AtLeast7(line) ==
    LET a == split(line, ",")
    IN  IF Len(a) >= 7 THEN TRUE ELSE FALSE

\* notTraceMetadata with its two branches exchanged.
notTraceMetadata_Inverted(line) ==
    LET a == split(line, ",")
    IN  IF Len(a) = 7 THEN FALSE ELSE TRUE

notTraceMetadata(line) ==
    LET a == split(line, ",")
    IN  IF Len(a) = 7 THEN TRUE ELSE FALSE

\* The expressions of parseLogLine's body, each with its outcome, in the
\* order Python evaluates them; the first that raises ends the call.
Evaluated(line0) ==
    LET line == split(strip(line0), ",")
    IN  IF Len(line) < 7 THEN [date |-> Raise("IndexError")]
        ELSE LET date == line[6] \o <<" ">> \o line[7]
             IN  [date |-> Return(date),
                  lat  |-> float(line[1]),
                  lon  |-> float(line[2]),
                  dt   |-> strptime(date)]

FirstRaised(e) ==
    IF Raised(e.date) THEN e.date
    ELSE IF Raised(e.lat) THEN e.lat
    ELSE IF Raised(e.lon) THEN e.lon
    ELSE e.dt

\* parseLogLine with the two coordinates taken from each other's field.
parseLogLine_Swapped(line0) ==
    LET e == Evaluated(line0)
    IN  IF Raised(FirstRaised(e)) THEN FirstRaised(e)
        ELSE Return([lat |-> e.lon.ret,
                     lon |-> e.lat.ret,
                     ts  |-> timestamp(e.dt.ret, utcoffset)])

\* parseLogLine with the date-time read as UTC, not as local time.
parseLogLine_Utc(line0) ==
    LET e == Evaluated(line0)
    IN  IF Raised(FirstRaised(e)) THEN FirstRaised(e)
        ELSE Return([lat |-> e.lat.ret,
                     lon |-> e.lon.ret,
                     ts  |-> timestamp(e.dt.ret, 0)])

\* parseLogLine that also keeps the altitude field.
parseLogLine_WithAlt(line0) ==
    LET e == Evaluated(line0)
    IN  IF Raised(FirstRaised(e)) THEN FirstRaised(e)
        ELSE Return([lat |-> e.lat.ret,
                     lon |-> e.lon.ret,
                     alt |-> split(strip(line0), ",")[4],
                     ts  |-> timestamp(e.dt.ret, utcoffset)])

\* parseLogLine without the strip() before the split.
parseLogLine_NoStrip(line0) ==
    LET line == split(line0, ",")
    IN  IF Len(line) < 7 THEN Raise("IndexError")
        ELSE IF Raised(float(line[1])) THEN float(line[1])
        ELSE IF Raised(float(line[2])) THEN float(line[2])
        ELSE IF Raised(strptime(line[6] \o <<" ">> \o line[7]))
             THEN strptime(line[6] \o <<" ">> \o line[7])
        ELSE Return([lat |-> float(line[1]).ret,
                     lon |-> float(line[2]).ret,
                     ts  |-> timestamp(
                                 strptime(line[6] \o <<" ">> \o line[7]).ret,
                                 utcoffset)])

parseLogLine(line0) ==
    LET e == Evaluated(line0)
    IN  IF Raised(FirstRaised(e)) THEN FirstRaised(e)
        ELSE Return([lat |-> e.lat.ret,
                     lon |-> e.lon.ret,
                     ts  |-> timestamp(e.dt.ret, utcoffset)])

(***************************************************************************)
(* The RDD operations the notebook calls.                                  *)
(***************************************************************************)
textFile(lines) == [i \in DOMAIN lines |-> Return(lines[i])]

\* The tuple built as (lon, lat).
Lambda_363_Swapped(cor) == Return(<<cor.lon, cor.lat>>)

Lambda_363(cor) == Return(<<cor.lat, cor.lon>>)

Lambda_417(loc) == Return(loc.ts)

\* The comparison with the minimum slipped to "at least".
Lambda_425_AtLeast(loc) == loc.ts >= min_ts

Lambda_425(loc) == loc.ts = min_ts

Lambda_446(cor) == Return(<<cor.lat, cor.lon>>)

\* A function passed to filter or map, named by f, applied to x.
apply(f, x) ==
    CASE f = "notTraceMetadata" -> notTraceMetadata(x)
      [] f = "parseLogLine"     -> parseLogLine(x)
      [] f = "Lambda_363"       -> Lambda_363(x)
      [] f = "Lambda_417"       -> Lambda_417(x)
      [] f = "Lambda_425"       -> Lambda_425(x)
      [] f = "Lambda_446"       -> Lambda_446(x)

\* rdd.filter(f): the elements f holds of, in order; an element that fails
\* to compute fails in the new RDD too.
filter(rdd, f) ==
    LET Keep(e) == Raised(e) \/ apply(f, e.ret)
    IN  SelectSeq(rdd, Keep)

\* rdd.map(f): f applied to each element, in order
map(rdd, f) ==
    [i \in DOMAIN rdd |-> IF Raised(rdd[i]) THEN rdd[i] ELSE apply(f, rdd[i].ret)]

\* rdd.take(n): the first n elements
take(rdd, n) ==
    LET first == SubSeq(rdd, 1, IF Len(rdd) < n THEN Len(rdd) ELSE n)
    IN  IF \E i \in DOMAIN first : Raised(first[i])
        THEN first[CHOOSE i \in DOMAIN first :
                       /\ Raised(first[i])
                       /\ \A j \in 1..(i - 1) : ~Raised(first[j])]
        ELSE Return([i \in DOMAIN first |-> first[i].ret])

\* rdd.collect(): all the elements
collect(rdd) == take(rdd, Len(rdd))

\* min() that reduces with the opposite comparison.
min_Greatest(rdd) ==
    LET all == collect(rdd)
    IN  IF Raised(all) THEN all
        ELSE IF all.ret = <<>> THEN Raise("ValueError")
        ELSE Return(CHOOSE m \in {all.ret[i] : i \in DOMAIN all.ret} :
                        \A i \in DOMAIN all.ret : m >= all.ret[i])

\* rdd.min(): the least element; an empty RDD cannot be reduced
min(rdd) ==
    LET all == collect(rdd)
    IN  IF Raised(all) THEN all
        ELSE IF all.ret = <<>> THEN Raise("ValueError")
        ELSE Return(CHOOSE m \in {all.ret[i] : i \in DOMAIN all.ret} :
                        \A i \in DOMAIN all.ret : m <= all.ret[i])

(***************************************************************************)
(* Inputs.  A line is built from comma-joined fields and surrounding       *)
(* whitespace; the fields are taken from a few spellings per position, the *)
(* well-formed ones of the data set and malformed ones.                    *)
(***************************************************************************)
MaxFields == 8     \* a line has 1..MaxFields fields
MaxPad    == 1     \* and 0..MaxPad whitespace characters at each end
MaxLines  == 3     \* a log file has 0..MaxLines lines

\* Spellings of the fields.
LAT_A  == <<"3", "9", ".", "9", "8">>
LAT_B  == <<"-", "5">>
LAT_X  == <<"x">>
LON_A  == <<"1", "1", "6", ".", "3">>
LON_B  == <<" ", "7">>
LON_X  == <<".">>
ALT_A  == <<"4", "9", "2">>
DAYS_A == <<"3", "9", "7", "4", "5", ".", "1">>
DATE_A == <<"2", "0", "0", "8", "-", "0", "6", "-", "1", "8">>
DATE_B == <<"2", "0", "0", "8", "-", "6", "-", "8">>
DATE_C == <<"2", "0", "0", "8", "-", "0", "2", "-", "2", "9">>
DATE_X == <<"2", "0", "0", "8", "-", "0", "2", "-", "3", "0">>
TIME_A == <<"0", "0", ":", "3", "4", ":", "0", "9">>
TIME_B == <<"0", ":", "3", "4", ":", "9">>
TIME_C == <<"2", "3", ":", "5", "9", ":", "5", "9">>
TIME_X == <<"2", "4", ":", "0", "0", ":", "0", "0">>
HEADER == <<"x", " ", "x">>

UtcOffsets == {0 - 10800, 28800}

Lats  == {LAT_A, LAT_B, LAT_X, <<>>}
Lons  == {LON_A, LON_B, LON_X}
Days  == {DAYS_A, <<>>}
Dates == {DATE_A, DATE_B, DATE_C, DATE_X}
Times == {TIME_A, TIME_B, TIME_C, TIME_X}

FieldChoices(i) ==
    CASE i = 1 -> Lats
      [] i = 2 -> Lons
      [] i = 3 -> {<<"0">>}
      [] i = 4 -> {ALT_A}
      [] i = 5 -> Days
      [] i = 6 -> Dates
      [] i = 7 -> Times
      [] OTHER -> {<<"x">>}

RECURSIVE FieldSeqs(_)
FieldSeqs(n) ==
    IF n = 0 THEN {<<>>}
    ELSE {Append(fs, f) : fs \in FieldSeqs(n - 1), f \in FieldChoices(n)}

\* ",".join(fields)
RECURSIVE join(_)
join(fields) ==
    IF Len(fields) = 1 THEN fields[1]
    ELSE fields[1] \o <<",">> \o join(Tail(fields))

RECURSIVE Pad(_)
Pad(n) == IF n = 0 THEN <<>> ELSE <<" ">> \o Pad(n - 1)

LogLine(fields, lead, trail) == Pad(lead) \o join(fields) \o Pad(trail)

\* The lines the two functions are called on.
Lines ==
    {LogLine(fs, lead, trail) :
        fs \in UNION {FieldSeqs(n) : n \in 1..MaxFields},
        lead \in 0..MaxPad, trail \in 0..MaxPad}

Point(lat, lon, date, time) ==
    LogLine(<<lat, lon, <<"0">>, ALT_A, DAYS_A, date, time>>, 0, 0)

\* The lines of the log files the notebook is run on: a header line, points
\* at three instants (two instants have two points each), one of them
\* between whitespace, and a seven-field line that is no point.
FileLines ==
    {HEADER,
     Point(LAT_A, LON_A, DATE_A, TIME_A),
     Point(LAT_B, LON_A, DATE_A, TIME_A),
     Point(LAT_B, LON_B, DATE_A, TIME_C),
     Point(LAT_A, LON_B, DATE_B, TIME_A),
     Pad(1) \o Point(LAT_B, LON_B, DATE_B, TIME_B) \o Pad(1),
     Point(LAT_X, LON_A, DATE_A, TIME_A)}

\* The log files: every sequence of at most n of these lines.
Files(n) == UNION {[1..k -> FileLines] : k \in 0..n}

(***************************************************************************)
(* The run of the notebook, one action per cell, the cell that finds the   *)
(* origin of a trajectory one action per step.  A statement that raises    *)
(* stops the run; the names assigned before it keep their values.          *)
(***************************************************************************)
Continue(outcome, next) ==
    IF Raised(outcome)
    THEN raised' = outcome.exc /\ pc' = pc
    ELSE raised' = raised /\ pc' = next

At_pc(label) == pc = label /\ raised = ""

Cell_rdd1 ==
    /\ At_pc("rdd1")
    /\ rdd1' = textFile(file)
    /\ Continue(take(rdd1', 10), "linesRDD")
    /\ UNCHANGED <<file, utcoffset, call, linesRDD, locationsRDD,
                   coordinatesRDD, timestampsRDD, min_ts, originRDD,
                   heatmap_layer, marker_locations>>

\* The filter done in place: rdd1 itself loses the rejected lines.
Cell_linesRDD_InPlace ==
    /\ At_pc("linesRDD")
    /\ linesRDD' = filter(rdd1, "notTraceMetadata")
    /\ rdd1' = linesRDD'
    /\ Continue(take(linesRDD', 3), "locationsRDD")
    /\ UNCHANGED <<file, utcoffset, call, locationsRDD,
                   coordinatesRDD, timestampsRDD, min_ts, originRDD,
                   heatmap_layer, marker_locations>>

Cell_linesRDD ==
    /\ At_pc("linesRDD")
    /\ linesRDD' = filter(rdd1, "notTraceMetadata")
    /\ Continue(take(linesRDD', 3), "locationsRDD")
    /\ UNCHANGED <<file, utcoffset, call, rdd1, locationsRDD,
                   coordinatesRDD, timestampsRDD, min_ts, originRDD,
                   heatmap_layer, marker_locations>>

Cell_locationsRDD ==
    /\ At_pc("locationsRDD")
    /\ locationsRDD' = map(linesRDD, "parseLogLine")
    /\ Continue(take(locationsRDD', 3), "coordinatesRDD")
    /\ UNCHANGED <<file, utcoffset, call, rdd1, linesRDD,
                   coordinatesRDD, timestampsRDD, min_ts, originRDD,
                   heatmap_layer, marker_locations>>

Cell_coordinatesRDD ==
    /\ At_pc("coordinatesRDD")
    /\ rdd1' = textFile(file)
    /\ coordinatesRDD' =
           map(map(filter(rdd1', "notTraceMetadata"), "parseLogLine"),
               "Lambda_363")
    /\ Continue(take(coordinatesRDD', 3), "heatmap_layer")
    /\ UNCHANGED <<file, utcoffset, call, linesRDD, locationsRDD,
                   timestampsRDD, min_ts, originRDD,
                   heatmap_layer, marker_locations>>

Cell_heatmap_layer ==
    /\ At_pc("heatmap_layer")
    /\ LET data == collect(coordinatesRDD)
       IN  /\ heatmap_layer' = IF Raised(data) THEN heatmap_layer ELSE data.ret
           /\ Continue(data, "origin")
    /\ UNCHANGED <<file, utcoffset, call, rdd1, linesRDD, locationsRDD,
                   coordinatesRDD, timestampsRDD, min_ts, originRDD,
                   marker_locations>>

Origin_coordinatesRDD ==
    /\ At_pc("origin")
    /\ rdd1' = textFile(file)
    /\ coordinatesRDD' =
           map(filter(rdd1', "notTraceMetadata"), "parseLogLine")
    /\ pc' = "timestampsRDD"
    /\ UNCHANGED <<file, utcoffset, call, raised, linesRDD, locationsRDD,
                   timestampsRDD, min_ts, originRDD,
                   heatmap_layer, marker_locations>>

Origin_timestampsRDD ==
    /\ At_pc("timestampsRDD")
    /\ timestampsRDD' = map(coordinatesRDD, "Lambda_417")
    /\ Continue(take(timestampsRDD', 5), "min_ts")
    /\ UNCHANGED <<file, utcoffset, call, rdd1, linesRDD, locationsRDD,
                   coordinatesRDD, min_ts, originRDD,
                   heatmap_layer, marker_locations>>

Origin_min_ts ==
    /\ At_pc("min_ts")
    /\ LET m == min(timestampsRDD)
       IN  /\ min_ts' = IF Raised(m) THEN min_ts ELSE m.ret
           /\ Continue(m, "originRDD")
    /\ UNCHANGED <<file, utcoffset, call, rdd1, linesRDD, locationsRDD,
                   coordinatesRDD, timestampsRDD, originRDD,
                   heatmap_layer, marker_locations>>

Origin_originRDD ==
    /\ At_pc("originRDD")
    /\ originRDD' = filter(coordinatesRDD, "Lambda_425")
    /\ Continue(take(originRDD', 1), "marker_locations")
    /\ UNCHANGED <<file, utcoffset, call, rdd1, linesRDD, locationsRDD,
                   coordinatesRDD, timestampsRDD, min_ts,
                   heatmap_layer, marker_locations>>

Cell_marker_locations ==
    /\ At_pc("marker_locations")
    /\ LET locs == collect(map(originRDD, "Lambda_446"))
       IN  /\ marker_locations' =
                  IF Raised(locs) THEN marker_locations ELSE locs.ret
           /\ Continue(locs, "done")
    /\ UNCHANGED <<file, utcoffset, call, rdd1, linesRDD, locationsRDD,
                   coordinatesRDD, timestampsRDD, min_ts, originRDD,
                   heatmap_layer>>

NoneBound ==
    /\ rdd1 = Unbound /\ linesRDD = Unbound /\ locationsRDD = Unbound
    /\ coordinatesRDD = Unbound /\ timestampsRDD = Unbound
    /\ min_ts = Unbound /\ originRDD = Unbound
    /\ heatmap_layer = Unbound /\ marker_locations = Unbound

Init ==
    /\ file \in Files(MaxLines)
    /\ utcoffset \in UtcOffsets
    /\ pc = "rdd1"
    /\ raised = ""
    /\ NoneBound
    /\ fn = "" /\ arg = <<>> /\ result = Unbound

Next ==
    \/ Cell_rdd1
    \/ Cell_linesRDD
    \/ Cell_locationsRDD
    \/ Cell_coordinatesRDD
    \/ Cell_heatmap_layer
    \/ Origin_coordinatesRDD
    \/ Origin_timestampsRDD
    \/ Origin_min_ts
    \/ Origin_originRDD
    \/ Cell_marker_locations

Spec == Init /\ [][Next]_vars

(***************************************************************************)
(* The two functions called directly on one line.                          *)
(***************************************************************************)
Call_notTraceMetadata ==
    /\ At_pc("call")
    /\ fn' = "notTraceMetadata"
    /\ result' = Return(notTraceMetadata(arg))
    /\ UNCHANGED <<file, utcoffset, pc, raised, names, arg>>

Call_parseLogLine ==
    /\ At_pc("call")
    /\ fn' = "parseLogLine"
    /\ result' = parseLogLine(arg)
    /\ UNCHANGED <<file, utcoffset, pc, raised, names, arg>>

InitFn ==
    /\ file = <<>>
    /\ utcoffset \in UtcOffsets
    /\ pc = "call"
    /\ raised = ""
    /\ NoneBound
    /\ fn = "" /\ arg \in Lines /\ result = Unbound

NextFn == Call_notTraceMetadata \/ Call_parseLogLine

SpecFn == InitFn /\ [][NextFn]_vars

(***************************************************************************)
(* What the claims speak of, read off the line itself.                     *)
(***************************************************************************)
Commas(line) == {i \in DOMAIN line : line[i] = ","}

NumCommas(line) == Cardinality(Commas(line))

\* the position of the k-th comma; 0 before the line, Len + 1 after it
CommaAt(line, k) ==
    IF k = 0 THEN 0
    ELSE IF k > NumCommas(line) THEN Len(line) + 1
    ELSE CHOOSE i \in Commas(line) :
             Cardinality({j \in Commas(line) : j <= i}) = k

\* the k-th comma-separated field of the line, k = 1 for the first
FieldOf(line, k) ==
    SubSeq(line, CommaAt(line, k - 1) + 1, CommaAt(line, k) - 1)

SevenFields(line) == NumCommas(line) = 6

Returned(f) == fn = f /\ ~Raised(result)

\* The epoch seconds of the date-time a str spells under the format in the
\* local time zone; Raise where it spells none.
EpochSeconds(s) ==
    IF Raised(strptime(s)) THEN strptime(s)
    ELSE Return(timestamp(strptime(s).ret, utcoffset))

(***************************************************************************)
(* C1: notTraceMetadata(line) returns True if and only if the line has     *)
(* exactly six commas, that is, splits on "," into exactly seven fields,   *)
(* and False for every other line, empty and whitespace-padded lines       *)
(* included.                                                               *)
(***************************************************************************)
C1_SevenFieldsIffTrue ==
    fn = "notTraceMetadata" =>
        /\ ~Raised(result)
        /\ result.ret \in BOOLEAN
        /\ result.ret = TRUE <=> NumCommas(arg) = 6

C1_Witness ==
    /\ fn = "notTraceMetadata"
    /\ result.ret = TRUE
    /\ arg[1] = " " /\ arg[Len(arg)] = " "

(***************************************************************************)
(* C2: for a seven-field line, the record parseLogLine returns has as lat  *)
(* the numeric value of the first field and as lon the numeric value of    *)
(* the second field.                                                       *)
(***************************************************************************)
C2_LatLonOfFirstTwoFields ==
    (Returned("parseLogLine") /\ SevenFields(arg)) =>
        /\ Return(result.ret.lat) = float(FieldOf(arg, 1))
        /\ Return(result.ret.lon) = float(FieldOf(arg, 2))

C2_Witness ==
    /\ Returned("parseLogLine") /\ SevenFields(arg)
    /\ result.ret.lat # result.ret.lon
    /\ arg[1] = " "

(***************************************************************************)
(* C3, as amended: for a seven-field line, the ts of the record            *)
(* parseLogLine returns is the epoch seconds of the date-time spelled by   *)
(* the sixth field, one space and the seventh field (without the line's    *)
(* trailing whitespace); the fifth field takes no part in it.              *)
(***************************************************************************)
C3_TsOfSixthAndSeventhField ==
    (Returned("parseLogLine") /\ SevenFields(arg)) =>
        Return(result.ret.ts) =
            EpochSeconds(FieldOf(arg, 6) \o <<" ">> \o rstrip(FieldOf(arg, 7)))

\* C3 as stated: the ts is the epoch seconds of the date-time spelled by the
\* fifth, sixth and seventh fields together.
C3_TsOfFifthSixthSeventhField ==
    (Returned("parseLogLine") /\ SevenFields(arg)) =>
        Return(result.ret.ts) =
            EpochSeconds(FieldOf(arg, 5) \o <<" ">> \o FieldOf(arg, 6)
                             \o <<" ">> \o rstrip(FieldOf(arg, 7)))

C3_Witness ==
    /\ Returned("parseLogLine") /\ SevenFields(arg)
    /\ FieldOf(arg, 5) # <<>>
    /\ utcoffset # 0
    /\ result.ret.ts > 0

(***************************************************************************)
(* C5: a record parseLogLine returns has exactly the three keys lat, lon   *)
(* and ts, each holding a number.                                          *)
(***************************************************************************)
C5_ExactlyLatLonTs ==
    Returned("parseLogLine") =>
        /\ DOMAIN result.ret = {"lat", "lon", "ts"}
        /\ \A k \in DOMAIN result.ret : result.ret[k] \in Int

C5_Witness ==
    /\ Returned("parseLogLine")
    /\ FieldOf(arg, 3) # <<>> /\ FieldOf(arg, 4) # <<>> /\ FieldOf(arg, 5) # <<>>

(***************************************************************************)
(* The run of the notebook, read off its position.                         *)
(***************************************************************************)
Labels == <<"rdd1", "linesRDD", "locationsRDD", "coordinatesRDD",
            "heatmap_layer", "origin", "timestampsRDD", "min_ts",
            "originRDD", "marker_locations", "done">>

Index(label) == CHOOSE i \in DOMAIN Labels : Labels[i] = label

\* every statement of the step at label has run
Completed(label) == Index(pc) > Index(label)

\* the RDD the step at label defines has been assigned (the take() that
\* follows the assignment may have raised)
Assigned(label) == Completed(label) \/ (pc = label /\ raised # "")

\* the seven-field lines of the log file, in file order
ValidLines == SelectSeq(file, SevenFields)

\* the records parseLogLine returns for them, in file order
Records == [i \in DOMAIN ValidLines |-> parseLogLine(ValidLines[i]).ret]

\* a seven-field line of which every field parseLogLine reads is well formed
WellFormed(line) ==
    /\ ~Raised(float(FieldOf(line, 1)))
    /\ ~Raised(float(FieldOf(line, 2)))
    /\ ~Raised(EpochSeconds(FieldOf(line, 6) \o <<" ">>
                                \o rstrip(FieldOf(line, 7))))

Count(seq, x) == Cardinality({i \in DOMAIN seq : seq[i] = x})

(***************************************************************************)
(* C4, as amended: lines that do not split into seven fields are silently  *)
(* excluded by the filter; an accepted line is turned into a record        *)
(* without raising exactly when its first and second fields are float      *)
(* literals and its sixth and seventh fields spell a date-time of the      *)
(* format; parseLogLine raises ValueError on every other accepted line,    *)
(* and that error is not handled: it stops the run at the first action     *)
(* that computes the line.                                                 *)
(***************************************************************************)
C4_AcceptedLineParsesIffWellFormed ==
    Assigned("locationsRDD") =>
        /\ Len(locationsRDD) = Len(ValidLines)
        /\ \A i \in DOMAIN locationsRDD :
               /\ Raised(locationsRDD[i]) <=> ~WellFormed(ValidLines[i])
               /\ Raised(locationsRDD[i]) =>
                      locationsRDD[i] = Raise("ValueError")
        /\ (pc = "locationsRDD") =>
               /\ raised = "ValueError"
               /\ \E i \in DOMAIN locationsRDD :
                      i <= 3 /\ ~WellFormed(ValidLines[i])
        /\ (pc # "locationsRDD") =>
               \A i \in DOMAIN locationsRDD :
                   i <= 3 => WellFormed(ValidLines[i])

\* C4 as stated: every line notTraceMetadata accepts is turned into a record
\* by parseLogLine without raising, whatever the file holds.
C4_AcceptedLineNeverRaises ==
    Assigned("locationsRDD") =>
        /\ raised = ""
        /\ \A i \in DOMAIN locationsRDD : ~Raised(locationsRDD[i])

C4_Witness ==
    /\ Assigned("locationsRDD")
    /\ Len(file) > Len(locationsRDD)
    /\ \E i \in DOMAIN locationsRDD :
           /\ ~Raised(locationsRDD[i])
           /\ ValidLines[i][1] = " "
    /\ \E i \in DOMAIN locationsRDD : Raised(locationsRDD[i])

(***************************************************************************)
(* C6: a step changes no name but the ones it assigns, and never the log   *)
(* file: applying notTraceMetadata and parseLogLine through filter and map *)
(* leaves the source collection as it was, so coordinatesRDD is mapped to  *)
(* timestampsRDD and then filtered into originRDD unchanged.               *)
(***************************************************************************)
AssignedBy(label) ==
    CASE label = "rdd1"             -> {1}
      [] label = "linesRDD"         -> {2}
      [] label = "locationsRDD"     -> {3}
      [] label = "coordinatesRDD"   -> {1, 4}
      [] label = "heatmap_layer"    -> {8}
      [] label = "origin"           -> {1, 4}
      [] label = "timestampsRDD"    -> {5}
      [] label = "min_ts"           -> {6}
      [] label = "originRDD"        -> {7}
      [] label = "marker_locations" -> {9}
      [] OTHER                      -> {}

C6_OnlyAssignedNamesChange ==
    [][/\ file' = file
       /\ \A n \in DOMAIN names :
              n \notin AssignedBy(pc) => names'[n] = names[n]
       /\ \A i \in DOMAIN rdd1 :
              i \in DOMAIN rdd1' /\ rdd1'[i] = Return(file[i])]_vars

C6_Witness ==
    /\ pc = "marker_locations"
    /\ Len(rdd1) > Len(coordinatesRDD)
    /\ Len(timestampsRDD) = Len(coordinatesRDD)
    /\ Len(coordinatesRDD) > Len(originRDD)
    /\ Len(originRDD) > 0

(***************************************************************************)
(* C7: after linesRDD = rdd1.filter(notTraceMetadata), linesRDD holds      *)
(* exactly the lines of rdd1 with seven comma-separated fields, each as    *)
(* often as in rdd1 and in the same relative order, and no other line.     *)
(***************************************************************************)
C7_LinesRDDIsTheSevenFieldLines ==
    Assigned("linesRDD") =>
        LET kept == {i \in DOMAIN rdd1 : NumCommas(rdd1[i].ret) = 6}
        IN  /\ Len(linesRDD) = Cardinality(kept)
            /\ \E f \in [DOMAIN linesRDD -> kept] :
                   /\ \A a, b \in DOMAIN linesRDD : a < b => f[a] < f[b]
                   /\ \A a \in DOMAIN linesRDD : linesRDD[a] = rdd1[f[a]]

C7_Witness ==
    /\ Assigned("linesRDD")
    /\ Len(rdd1) = 3 /\ Len(linesRDD) = 2
    /\ NumCommas(rdd1[2].ret) = 0
    /\ linesRDD[1] = linesRDD[2]

(***************************************************************************)
(* C8: once the origin cell has run (on a trajectory with at least one     *)
(* valid line), min_ts is the ts of some parsed record and at most the ts  *)
(* of every parsed record; originRDD holds exactly the parsed records      *)
(* whose ts is min_ts, so it is not empty, and it holds one record when no *)
(* two records share a ts.                                                 *)
(***************************************************************************)
C8_OriginIsTheMinTsRecords ==
    Completed("originRDD") =>
        LET recs   == Records
            origin == [i \in DOMAIN originRDD |-> originRDD[i].ret]
        IN  /\ Len(recs) >= 1
            /\ \E i \in DOMAIN recs : min_ts = recs[i].ts
            /\ \A i \in DOMAIN recs : min_ts <= recs[i].ts
            /\ \A i \in DOMAIN originRDD : ~Raised(originRDD[i])
            /\ \A i \in DOMAIN recs :
                   Count(origin, recs[i]) =
                       IF recs[i].ts = min_ts THEN Count(recs, recs[i]) ELSE 0
            /\ \A i \in DOMAIN origin : \E j \in DOMAIN recs : origin[i] = recs[j]
            /\ origin # <<>>
            /\ (\A i, j \in DOMAIN recs : i # j => recs[i].ts # recs[j].ts)
                   => Len(origin) = 1

C8_Witness ==
    /\ Completed("originRDD")
    /\ Len(ValidLines) = 3
    /\ Len(originRDD) = 1
    /\ min_ts = Records[2].ts
    /\ Records[1].ts < Records[3].ts

C8_WitnessSharedTs ==
    /\ Completed("originRDD")
    /\ Len(originRDD) = 2
    /\ originRDD[1] # originRDD[2]

(***************************************************************************)
(* C9, as amended: the records selected into originRDD are those with the  *)
(* least ts, wherever they stand in the file; originRDD is the one record  *)
(* parsed from the first valid line exactly when the ts of that line is    *)
(* less than the ts of every other valid line, as it is in a log in        *)
(* strictly chronological order.                                           *)
(***************************************************************************)
C9_OriginIsFirstLineIffItIsEarliest ==
    Completed("originRDD") =>
        LET recs == Records
        IN  /\ \A i \in DOMAIN originRDD, j \in DOMAIN recs :
                   originRDD[i].ret.ts <= recs[j].ts
            /\ originRDD = <<Return(recs[1])>>
                   <=> \A j \in DOMAIN recs : j # 1 => recs[1].ts < recs[j].ts

\* C9 as stated: for any log file, the record selected into originRDD is the
\* record parsed from the first valid line in file order.
C9_OriginIsFirstLine ==
    Completed("originRDD") => originRDD = <<Return(Records[1])>>

C9_Witness ==
    /\ Completed("originRDD")
    /\ Len(ValidLines) >= 2
    /\ originRDD = <<Return(Records[1])>>

C9_WitnessNotFirst ==
    /\ Completed("originRDD")
    /\ Len(originRDD) = 1
    /\ originRDD # <<Return(Records[1])>>

(***************************************************************************)
(* C10: the list coordinatesRDD.collect() hands to the heatmap has one     *)
(* (lat, lon) tuple per seven-field line of the log file, in file order,   *)
(* with the lat and lon of the record parseLogLine returns for that line;  *)
(* marker_locations is the (lat, lon) of every record of originRDD, in     *)
(* order, and nothing else.                                                *)
(***************************************************************************)
C10_TuplesOfTheRecords ==
    /\ Completed("heatmap_layer") =>
           LET recs == Records
           IN  heatmap_layer =
                   [i \in DOMAIN recs |-> <<recs[i].lat, recs[i].lon>>]
    /\ Completed("marker_locations") =>
           marker_locations =
               [i \in DOMAIN originRDD |->
                    <<originRDD[i].ret.lat, originRDD[i].ret.lon>>]

C10_Witness ==
    /\ Completed("marker_locations")
    /\ Len(file) > Len(heatmap_layer)
    /\ Len(heatmap_layer) > Len(marker_locations)
    /\ Len(marker_locations) > 0
    /\ heatmap_layer[1] # heatmap_layer[2]
    /\ heatmap_layer[1][1] # heatmap_layer[1][2]


(***************************************************************************)
(* C11: notTraceMetadata counts the fields of the raw line, parseLogLine   *)
(* splits the stripped line.  Stripping never changes the number of        *)
(* comma-separated fields, so for every line notTraceMetadata accepts the  *)
(* split in parseLogLine has exactly seven fields too, and the accesses    *)
(* line[0], line[1], line[5] and line[6] are in range: the call never      *)
(* raises IndexError.                                                      *)
(***************************************************************************)
C11_AcceptedLineHasSevenFieldsStripped ==
    /\ Len(split(strip(arg), ",")) = Len(split(arg, ","))
    /\ (fn = "parseLogLine" /\ notTraceMetadata(arg)) =>
           /\ Len(split(strip(arg), ",")) = 7
           /\ \A k \in {0, 1, 5, 6} : k + 1 \in DOMAIN split(strip(arg), ",")
           /\ result # Raise("IndexError")

C11_Witness ==
    /\ fn = "parseLogLine" /\ notTraceMetadata(arg)
    /\ arg[1] = " " /\ arg[Len(arg)] = " "
    /\ arg[2] = ","
    /\ result = Raise("ValueError")

C11_WitnessReturned ==
    /\ Returned("parseLogLine") /\ notTraceMetadata(arg)
    /\ arg[1] = " " /\ arg[Len(arg)] = " "

====
